---- MODULE Spec2Model ----
(***************************************************************************)
(* ScholarQuery (src/app.py): one Streamlit script run per user            *)
(* interaction.  The script resolves the sidebar selections into a filter  *)
(* and a rerank directive, and, when Search was clicked, run_search issues *)
(* one retrieval call to the vector store and renders the response.        *)
(*                                                                         *)
(* Python values are modelled as follows.  None of a string-valued widget  *)
(* is the string NoneStr; an optional float is a sequence (<<>> is None,   *)
(* <<n>> is the float n/scale); a float computed from those is an exact    *)
(* fraction [num, den]; a str is a TLA+ string, except page and volume,    *)
(* which are sequences of one-character strings because the code slices    *)
(* them.                                                                   *)
(***************************************************************************)
EXTENDS Integers, Sequences, FiniteSets, TLC

VARIABLES pc, classes, selected_collection, selected_book, selected_topics,
          final_filters, search_mode, top_k, query, rerank_choice,
          rerank_query, rerank, search_clicked, calls, response, output,
          outcome

vars == <<pc, classes, selected_collection, selected_book, selected_topics,
          final_filters, search_mode, top_k, query, rerank_choice,
          rerank_query, rerank, search_clicked, calls, response, output,
          outcome>>

----------------------------------------------------------------------------
(* Bounds of the model *)

\* longest result list the store returns
MaxResults == 2

\* distances are the grid points n / DistScale, n in 0 .. 2 * DistScale
DistScale == 4

\* rerank scores are the grid points n / ScoreScale, n in 0 .. ScoreScale
ScoreScale == 4

----------------------------------------------------------------------------
(* Values *)

NoneStr == "<None>"

\* an optional float that is None
NoneNum == <<>>

Min(a, b) == IF a < b THEN a ELSE b

\* the sequences over S of length at most n
SeqUpTo(S, n) == UNION {[1..k -> S] : k \in 0..n}

\* the elements of a list
Range(s) == {s[k] : k \in DOMAIN s}

----------------------------------------------------------------------------
(* What the store holds and what the user can type *)

\* collection names the store may hold, in alphabetical order
CollectionUniverse == <<"Texts">>

\* the `book` groups a collection may have
BookLists == {<<>>, <<"BookA", "BookB">>}

\* the `topic` groups a collection may have
TopicLists == {<<>>, <<"History", "Law">>}

QueryTexts == {"", "trade routes"}

RerankTexts == {"", "silk"}

SearchModes == {"Semantic Search", "Explained Search", "Summary Generation Search"}

slider_min_value == 1

slider_value == 5

slider_max_value == 10

\* the slider positions the model tries: both ends and the default
TopKs == {slider_min_value, slider_value, slider_max_value}

----------------------------------------------------------------------------
(* Python helpers *)

\* truthiness of a string-valued widget result: None and "" are falsy
TruthyStr(s) == s # NoneStr /\ s # ""

\* a float as an exact fraction, den > 0
Frac(n, d) == [num |-> n, den |-> d]

FDiv(f, k) == Frac(f.num, f.den * k)

FMul(f, k) == Frac(f.num * k, f.den)

\* k - f
FSubFrom(k, f) == Frac(k * f.den - f.num, f.den)

FEq(a, b) == a.num * b.den = b.num * a.den

FLess(a, b) == a.num * b.den < b.num * a.den

\* truthiness of an optional float: None and 0.0 are falsy
TruthyNum(o) == o # NoneNum /\ o[1].num # 0

\* int(value) of a float: truncation toward zero
PyTrunc(f) == IF f.num >= 0 THEN f.num \div f.den ELSE -((-f.num) \div f.den)

\* round(value, 1) of a non-negative float, in tenths, ties to even
Round1(f) ==
    LET q == (f.num * 10) \div f.den
        r == (f.num * 10) % f.den
    IN  IF 2 * r > f.den \/ (2 * r = f.den /\ q % 2 = 1) THEN q + 1 ELSE q

DigitChars == <<"0", "1", "2", "3", "4", "5", "6", "7", "8", "9">>

IsDigit(c) == \E k \in DOMAIN DigitChars : DigitChars[k] = c

DigitVal(c) == (CHOOSE k \in DOMAIN DigitChars : DigitChars[k] = c) - 1

\* s[1:] of a str
Slice1(s) == IF s = <<>> THEN <<>> ELSE Tail(s)

RECURSIVE DecimalValue(_)
DecimalValue(s) ==
    IF s = <<>> THEN 0
    ELSE DecimalValue(SubSeq(s, 1, Len(s) - 1)) * 10 + DigitVal(s[Len(s)])

\* int(s) of a str of letters and digits: raises ValueError unless s is a
\* non-empty run of digits
PyInt(s) ==
    IF s # <<>> /\ \A k \in DOMAIN s : IsDigit(s[k])
    THEN [ok |-> TRUE, val |-> DecimalValue(s)]
    ELSE [ok |-> FALSE, val |-> 0]

----------------------------------------------------------------------------
(* Selection resolver: lines 62-73 *)

NoFilter == [op |-> "None"]

Equal(prop, v) == [op |-> "Equal", prop |-> prop, value |-> v]

ContainsAny(prop, vs) == [op |-> "ContainsAny", prop |-> prop, values |-> vs]

\* Filter.all_of of the store client: a list of one filter is that filter,
\* a longer list is the AND node over the list
all_of(filters) ==
    IF Len(filters) = 1 THEN filters[1]
    ELSE [op |-> "AllOf", filters |-> filters]

\* the book clause replaces the topic clause instead of joining it
FinalFiltersBookOnly(book, topics) ==
    IF TruthyStr(book) THEN Equal("book", book)
    ELSE IF topics # {} THEN ContainsAny("topic", topics)
    ELSE NoFilter

FinalFilters(book, topics) ==
    LET by_book   == IF TruthyStr(book)
                     THEN <<Equal("book", book)>> ELSE <<>>
        by_topic  == IF topics # {}
                     THEN <<ContainsAny("topic", topics)>> ELSE <<>>
        selected_filters == by_book \o by_topic
    IN  IF selected_filters # <<>> THEN all_of(selected_filters) ELSE NoFilter

----------------------------------------------------------------------------
(* Rerank directive: lines 99-113 *)

NoRerank == [prop |-> NoneStr, query |-> NoneStr]

\* the directive is built from the toggle alone
RerankDirectiveToggleOnly(choice, text) ==
    IF choice THEN [prop |-> "text", query |-> text] ELSE NoRerank

RerankDirective(choice, text) ==
    IF choice /\ text # NoneStr /\ text # ""
    THEN [prop |-> "text", query |-> text]
    ELSE NoRerank

----------------------------------------------------------------------------
(* Result projector: lines 134-164 *)

\* the halving of the distance is left out
RelevanceNoHalving(distance) == FMul(FSubFrom(1, distance), 100)

Relevance(distance) == FMul(FSubFrom(1, FDiv(distance, 2)), 100)

\* line 147
RerankedRelevance(rerank_score) ==
    IF rerank_score # NoneNum THEN <<FMul(rerank_score[1], 100)>> ELSE NoneNum

\* display_result: raised is TRUE when int() raises ValueError, which happens
\* before anything is written; otherwise entries holds what was written for
\* the result.  The text, topic, book and author properties are written
\* unchanged and are not carried.
display_result(result, i, choice) ==
    LET page     == PyInt(Slice1(result.page))
        volume   == PyInt(Slice1(result.volume))
        relevance == Relevance(result.distance)
        reranked_relevance == RerankedRelevance(result.rerank_score)
        shown    == choice /\ TruthyNum(result.rerank_score)
    IN  IF ~page.ok \/ ~volume.ok
        THEN [raised |-> TRUE, entries |-> <<>>]
        ELSE [raised |-> FALSE,
              entries |-> <<[kind |-> "result",
                             i |-> i,
                             title |-> i + 1,
                             relevance |-> relevance,
                             relevance_text |-> Round1(relevance),
                             relevance_bar |-> PyTrunc(relevance),
                             reranked |-> IF shown THEN reranked_relevance
                                          ELSE NoneNum,
                             reranked_text |-> IF shown
                                 THEN <<Round1(reranked_relevance[1])>>
                                 ELSE NoneNum,
                             reranked_bar |-> IF shown
                                 THEN <<PyTrunc(reranked_relevance[1])>>
                                 ELSE NoneNum,
                             page |-> page.val,
                             volume |-> volume.val]>>]

----------------------------------------------------------------------------
(* What the store can answer *)

Dist(n) == Frac(n, DistScale)

Score(n) == Frac(n, ScoreScale)

WellFormedPage == <<"p", "1", "2">>

MalformedPage == <<"p", "x">>

WellFormedVolume == <<"v", "3">>

MalformedVolume == <<"v", "x">>

\* results of a retrieval call of the script run; generated is the per-result
\* text of a single_prompt call and None otherwise; the store scores a result
\* only for a call that carries a rerank directive, and may leave it unscored
SearchResults(directive, generated_texts) ==
    [page : {WellFormedPage, MalformedPage},
     volume : {WellFormedVolume},
     distance : {Dist(DistScale)},
     rerank_score : IF directive = NoRerank THEN {NoneNum}
                    ELSE {NoneNum, <<Score(0)>>, <<Score(ScoreScale)>>},
     generated : generated_texts]

ExplainedTexts == {"gA", "gB"}

SummaryTexts == {NoneStr, "", "X"}

\* the responses of a retrieval call that returned: at most limit objects
Responses(limit, directive, generated_texts, summaries) ==
    [status : {"returned"},
     objects : SeqUpTo(SearchResults(directive, generated_texts),
                       Min(limit, MaxResults)),
     generated : summaries]

\* no retrieval call was made yet
NoResponse == [status |-> "none", objects |-> <<>>, generated |-> NoneStr]

\* the retrieval call raised (network, authentication or store-side error)
RaisedResponse == [status |-> "raised", objects |-> <<>>, generated |-> NoneStr]

----------------------------------------------------------------------------
(* The script run *)

Init ==
    /\ pc = "list_all"
    /\ classes = <<>>
    /\ selected_collection = NoneStr
    /\ selected_book = NoneStr
    /\ selected_topics = {}
    /\ final_filters = NoFilter
    /\ search_mode = NoneStr
    /\ top_k = slider_value
    /\ query = ""
    /\ rerank_choice = FALSE
    /\ rerank_query = NoneStr
    /\ rerank = NoRerank
    /\ search_clicked = FALSE
    /\ calls = <<>>
    /\ response = NoResponse
    /\ output = <<>>
    /\ outcome = "running"

\* the exception is swallowed and the run ends as one without results
RaiseSwallowed(exception, written) ==
    /\ pc' = "done"
    /\ outcome' = "rendered"
    /\ output' = Append(written, [kind |-> "no_results"])

\* an exception nothing in the script catches ends the run; Streamlit shows it
\* below what was written so far
Raise(exception, written) ==
    /\ pc' = "done"
    /\ outcome' = exception
    /\ output' = written

\* st.selectbox: one of the options, None when there are none
SelectboxValues(options) ==
    IF options = <<>> THEN {NoneStr} ELSE Range(options)

\* sorted(list(response.keys())): the universe is listed in sorted order
SortedKeys(keys) == SelectSeq(CollectionUniverse, LAMBDA c : c \in keys)

\* lines 21-29
ListCollections ==
    /\ pc = "list_all"
    /\ \/ /\ Raise("list_failed", output)
          /\ UNCHANGED <<classes, selected_collection>>
       \/ \E keys \in SUBSET Range(CollectionUniverse) :
             /\ classes' = SortedKeys(keys)
             /\ selected_collection' \in SelectboxValues(classes')
             /\ pc' = "get"
             /\ UNCHANGED <<outcome, output>>
    /\ UNCHANGED <<selected_book, selected_topics, final_filters, search_mode,
                   top_k, query, rerank_choice, rerank_query, rerank,
                   search_clicked, calls, response>>

\* the client hands out a handle for any name
GetNeverRaises(name) == FALSE

\* line 31: collections.get capitalises the first letter of the name, which
\* raises for None
GetRaises(name) == name = NoneStr

\* lines 31-73
ResolveSelection ==
    /\ pc = "get"
    /\ \/ /\ GetRaises(selected_collection)
          /\ Raise("get_failed", output)
          /\ UNCHANGED <<selected_book, selected_topics, final_filters>>
       \/ /\ ~GetRaises(selected_collection)
          /\ Raise("aggregate_failed", output)
          /\ UNCHANGED <<selected_book, selected_topics, final_filters>>
       \/ /\ ~GetRaises(selected_collection)
          /\ \E list_of_books \in BookLists, list_of_topics \in TopicLists :
                /\ selected_book' \in SelectboxValues(list_of_books)
                /\ selected_topics' \in SUBSET Range(list_of_topics)
          /\ final_filters' = FinalFilters(selected_book', selected_topics')
          /\ pc' = "inputs"
          /\ UNCHANGED <<outcome, output>>
    /\ UNCHANGED <<classes, selected_collection, search_mode, top_k, query,
                   rerank_choice, rerank_query, rerank, search_clicked, calls,
                   response>>

\* lines 75-115
SidebarInputs ==
    /\ pc = "inputs"
    /\ search_mode' \in SearchModes
    /\ top_k' \in TopKs
    /\ query' \in QueryTexts
    /\ rerank_choice' \in BOOLEAN
    /\ rerank_query' \in IF rerank_choice' THEN RerankTexts ELSE {NoneStr}
    /\ rerank' = RerankDirective(rerank_choice', rerank_query')
    /\ search_clicked' \in BOOLEAN
    /\ pc' = "tab1"
    /\ UNCHANGED <<classes, selected_collection, selected_book,
                   selected_topics, final_filters, calls, response, output,
                   outcome>>

\* lines 237-259
Welcome ==
    /\ pc = "tab1"
    /\ ~search_clicked
    /\ output' = Append(output, [kind |-> "welcome"])
    /\ outcome' = "welcome"
    /\ pc' = "done"
    /\ UNCHANGED <<classes, selected_collection, selected_book,
                   selected_topics, final_filters, search_mode, top_k, query,
                   rerank_choice, rerank_query, rerank, search_clicked, calls,
                   response>>

\* the branch of run_search a search mode takes: lines 168, 196, 220, and the
\* keyword arguments that differ between the three calls
StrategyIgnoringSummary(mode) ==
    IF mode = "Explained Search" \/ mode = "Summary Generation Search"
    THEN "explained" ELSE "semantic"

Strategy(mode) ==
    IF mode = "Explained Search" THEN "explained"
    ELSE IF mode = "Summary Generation Search" THEN "summary"
    ELSE "semantic"

\* the near_text call of a branch: lines 179-186, 199-207, 221-227
NearTextCall(strategy) ==
    [api |-> IF strategy = "semantic" THEN "query.near_text"
             ELSE "generate.near_text",
     query |-> query,
     limit |-> top_k,
     single_prompt |-> IF strategy = "explained" THEN "prompt" ELSE NoneStr,
     grouped_task |-> IF strategy = "summary" THEN "task_prompt" ELSE NoneStr,
     grouped_properties |-> IF strategy = "summary" THEN <<"text">> ELSE <<>>,
     filters |-> final_filters,
     rerank |-> rerank,
     return_metadata |-> {"distance", "score"}]

\* the loop over response.objects: lines 190-192, 215-216, 230-231.  A
\* ValueError of display_result leaves the loop and the script.
RECURSIVE RenderLoop(_, _, _, _)
RenderLoop(objects, k, choice, with_generated) ==
    IF k > Len(objects) THEN [raised |-> FALSE, entries |-> <<>>]
    ELSE LET shown == display_result(objects[k], k - 1, choice)
         IN  IF shown.raised THEN [raised |-> TRUE, entries |-> <<>>]
             ELSE LET rest == RenderLoop(objects, k + 1, choice, with_generated)
                      text == IF with_generated
                              THEN <<[kind |-> "generated", i |-> k - 1,
                                      text |-> objects[k].generated]>>
                              ELSE <<>>
                  IN  [raised |-> rest.raised,
                       entries |-> shown.entries \o text \o rest.entries]

\* lines 189-194, 214-218, 229-233
RenderObjects(objects, choice, with_generated) ==
    IF objects # <<>> THEN RenderLoop(objects, 1, choice, with_generated)
    ELSE [raised |-> FALSE, entries |-> <<[kind |-> "no_results"]>>]

\* lines 187-194
RenderExplained(r, choice) ==
    LET body == RenderObjects(r.objects, choice, TRUE)
    IN  [raised |-> body.raised,
         entries |-> <<[kind |-> "header", text |-> "Semantic Search Results"]>>
                     \o body.entries]

\* the summary is written below the results
RenderSummaryBelow(r, choice) ==
    LET body == RenderObjects(r.objects, choice, FALSE)
        summary == IF TruthyStr(r.generated)
                   THEN <<[kind |-> "summary", text |-> r.generated]>>
                   ELSE <<>>
    IN  [raised |-> body.raised,
         entries |-> <<[kind |-> "header", text |-> "Generated Summary"]>>
                     \o <<[kind |-> "subheader",
                           text |-> "Semantic Search Results"]>>
                     \o body.entries
                     \o summary]

\* lines 209-218
RenderSummary(r, choice) ==
    LET body == RenderObjects(r.objects, choice, FALSE)
        summary == IF TruthyStr(r.generated)
                   THEN <<[kind |-> "summary", text |-> r.generated]>>
                   ELSE <<>>
    IN  [raised |-> body.raised,
         entries |-> <<[kind |-> "header", text |-> "Generated Summary"]>>
                     \o summary
                     \o <<[kind |-> "subheader",
                           text |-> "Semantic Search Results"]>>
                     \o body.entries]

\* lines 228-233
RenderSemantic(r, choice) ==
    LET body == RenderObjects(r.objects, choice, FALSE)
    IN  [raised |-> body.raised,
         entries |-> <<[kind |-> "header", text |-> "Semantic Search Results"]>>
                     \o body.entries]

\* what a branch writes for the response r
Render(strategy, r, choice) ==
    IF strategy = "explained" THEN RenderExplained(r, choice)
    ELSE IF strategy = "summary" THEN RenderSummary(r, choice)
    ELSE RenderSemantic(r, choice)

\* the call is issued; it raises, or it returns r and r is rendered
Retrieve(strategy, answers) ==
    /\ calls' = Append(calls, NearTextCall(strategy))
    /\ \/ /\ response' = RaisedResponse
          /\ Raise("retrieval_failed", output)
       \/ \E r \in answers :
             /\ response' = r
             /\ output' = output \o Render(strategy, r, rerank_choice).entries
             /\ outcome' = IF Render(strategy, r, rerank_choice).raised
                           THEN "value_error"
                           ELSE "rendered"
             /\ pc' = "done"
    /\ UNCHANGED <<classes, selected_collection, selected_book,
                   selected_topics, final_filters, search_mode, top_k, query,
                   rerank_choice, rerank_query, rerank, search_clicked>>

\* lines 168-194
ExplainedSearch ==
    /\ pc = "tab1"
    /\ search_clicked
    /\ Strategy(search_mode) = "explained"
    /\ Retrieve("explained", Responses(top_k, rerank, ExplainedTexts, {NoneStr}))

\* lines 196-218
SummarySearch ==
    /\ pc = "tab1"
    /\ search_clicked
    /\ Strategy(search_mode) = "summary"
    /\ Retrieve("summary", Responses(top_k, rerank, {NoneStr}, SummaryTexts))

\* lines 220-233
SemanticSearch ==
    /\ pc = "tab1"
    /\ search_clicked
    /\ Strategy(search_mode) = "semantic"
    /\ Retrieve("semantic", Responses(top_k, rerank, {NoneStr}, {NoneStr}))

\* the next interaction runs the script again from the top
Rerun ==
    /\ pc = "done"
    /\ pc' = "list_all"
    /\ classes' = <<>>
    /\ selected_collection' = NoneStr
    /\ selected_book' = NoneStr
    /\ selected_topics' = {}
    /\ final_filters' = NoFilter
    /\ search_mode' = NoneStr
    /\ top_k' = slider_value
    /\ query' = ""
    /\ rerank_choice' = FALSE
    /\ rerank_query' = NoneStr
    /\ rerank' = NoRerank
    /\ search_clicked' = FALSE
    /\ calls' = <<>>
    /\ response' = NoResponse
    /\ output' = <<>>
    /\ outcome' = "running"

Next ==
    \/ ListCollections
    \/ ResolveSelection
    \/ SidebarInputs
    \/ Welcome
    \/ ExplainedSearch
    \/ SummarySearch
    \/ SemanticSearch
    \/ Rerun

Spec == Init /\ [][Next]_vars

----------------------------------------------------------------------------
(* display_result on its own, over the whole grid of distances and scores *)

ProjectorResults ==
    [page : {WellFormedPage, MalformedPage},
     volume : {WellFormedVolume, MalformedVolume},
     distance : {Dist(n) : n \in 0..(2 * DistScale)},
     rerank_score : {NoneNum} \cup {<<Score(n)>> : n \in 0..ScoreScale},
     generated : {NoneStr}]

ProjectorInit ==
    /\ pc = "display_result"
    /\ classes = <<>>
    /\ selected_collection = NoneStr
    /\ selected_book = NoneStr
    /\ selected_topics = {}
    /\ final_filters = NoFilter
    /\ search_mode = NoneStr
    /\ top_k = slider_value
    /\ query = ""
    /\ rerank_choice \in BOOLEAN
    /\ rerank_query = NoneStr
    /\ rerank = NoRerank
    /\ search_clicked = TRUE
    /\ calls = <<>>
    /\ \E result \in ProjectorResults :
          response = [status |-> "returned", objects |-> <<result>>,
                      generated |-> NoneStr]
    /\ output = <<>>
    /\ outcome = "running"

\* one call of display_result(st, result, 0, rerank_choice)
DisplayResult ==
    /\ pc = "display_result"
    /\ LET shown == display_result(response.objects[1], 0, rerank_choice)
       IN  /\ output' = output \o shown.entries
           /\ outcome' = IF shown.raised THEN "value_error" ELSE "rendered"
    /\ pc' = "done"
    /\ UNCHANGED <<classes, selected_collection, selected_book,
                   selected_topics, final_filters, search_mode, top_k, query,
                   rerank_choice, rerank_query, rerank, search_clicked, calls,
                   response>>

ProjectorNext == DisplayResult

ProjectorSpec == ProjectorInit /\ [][ProjectorNext]_vars

----------------------------------------------------------------------------
(* Properties *)

\* run_search was entered in this run
RanSearch == outcome \in {"rendered", "retrieval_failed", "value_error"}

\* the positions of the output that hold entries of a kind
Positions(kind) == {j \in DOMAIN output : output[j].kind = kind}

\* C1: every run of run_search issues exactly one retrieval call, the one of
\* the selected search mode: Explained asks for per-result generated text and
\* no grouped summary, Summary for one grouped summary and no per-result
\* text, Semantic for neither; and only the asked-for text is rendered.
C1_OneStrategyPerSearch ==
    /\ Len(calls) <= 1
    /\ calls # <<>> => search_clicked /\ RanSearch
    /\ (pc = "done" /\ search_clicked) => Len(calls) = 1 /\ RanSearch
    /\ calls # <<>> =>
          LET c == calls[1]
          IN  /\ search_mode = "Explained Search" =>
                    /\ c.api = "generate.near_text"
                    /\ c.single_prompt # NoneStr
                    /\ c.grouped_task = NoneStr
                    /\ Positions("summary") = {}
              /\ search_mode = "Summary Generation Search" =>
                    /\ c.api = "generate.near_text"
                    /\ c.single_prompt = NoneStr
                    /\ c.grouped_task # NoneStr
                    /\ Positions("generated") = {}
                    /\ Cardinality(Positions("summary")) <= 1
              /\ search_mode = "Semantic Search" =>
                    /\ c.api = "query.near_text"
                    /\ c.single_prompt = NoneStr
                    /\ c.grouped_task = NoneStr
                    /\ Positions("generated") = {}
                    /\ Positions("summary") = {}

C1_Witness ==
    /\ pc = "done"
    /\ search_mode = "Summary Generation Search"
    /\ Len(calls) = 1
    /\ calls[1].grouped_task # NoneStr
    /\ outcome = "rendered"
    /\ Cardinality(Positions("summary")) = 1
    /\ Positions("result") # {}

\* C2: the filter of the retrieval call is Equal(book, b) when only a book is
\* chosen, ContainsAny(topic, T) when only topics are chosen, AllOf of the two
\* in that order when both are chosen, and absent when neither is chosen.
C2_FilterOfSelection ==
    calls # <<>> =>
        LET f == calls[1].filters
            book_chosen == selected_book # NoneStr
            topics_chosen == selected_topics # {}
            by_book == [op |-> "Equal", prop |-> "book", value |-> selected_book]
            by_topic == [op |-> "ContainsAny", prop |-> "topic",
                         values |-> selected_topics]
        IN  /\ (book_chosen /\ ~topics_chosen) => f = by_book
            /\ (~book_chosen /\ topics_chosen) => f = by_topic
            /\ (book_chosen /\ topics_chosen) =>
                   f = [op |-> "AllOf", filters |-> <<by_book, by_topic>>]
            /\ (~book_chosen /\ ~topics_chosen) => f = [op |-> "None"]

C2_Witness ==
    /\ calls # <<>>
    /\ selected_book = "BookB"
    /\ selected_topics = {"History", "Law"}
    /\ calls[1].filters.op = "AllOf"

\* C3: a Search click with an empty query issues no retrieval call.
C3_NoCallOnEmptyQuery ==
    (search_clicked /\ query = "") => calls = <<>>

\* C4: the retrieval call carries a rerank directive exactly when the toggle is
\* on and the rerank text is non-empty; the directive then targets "text" with
\* that rerank text; with the toggle on and the text empty the call is still
\* issued, without a directive.
C4_RerankDirective ==
    /\ calls # <<>> =>
          LET c == calls[1]
              wanted == rerank_choice /\ rerank_query # NoneStr
                                      /\ rerank_query # ""
          IN  /\ (c.rerank # NoRerank) <=> wanted
              /\ wanted => c.rerank = [prop |-> "text", query |-> rerank_query]
    /\ (pc = "done" /\ search_clicked /\ rerank_choice /\ rerank_query = "") =>
          /\ Len(calls) = 1
          /\ calls[1].rerank = NoRerank

C4_Witness ==
    /\ pc = "done"
    /\ rerank_choice
    /\ rerank_query = ""
    /\ Len(calls) = 1
    /\ calls[1].rerank = NoRerank
    /\ outcome = "rendered"

\* C5: for a result at distance d = n / DistScale in [0, 2] the relevance that
\* display_result writes is 100 - 50 * d: within [0, 100], 100 at d = 0, 50
\* at d = 1, 0 at d = 2, and greater than the relevance of every larger
\* distance of the grid.
C5_RelevanceOfDistance ==
    (pc = "done" /\ outcome = "rendered") =>
        LET d == response.objects[1].distance
            relevance == output[1].relevance
        IN  /\ relevance.den > 0
            /\ relevance.num * DistScale
                  = (100 * DistScale - 50 * d.num) * relevance.den
            /\ ~FLess(relevance, Frac(0, 1))
            /\ ~FLess(Frac(100, 1), relevance)
            /\ d.num = 0 => FEq(relevance, Frac(100, 1))
            /\ d.num = DistScale => FEq(relevance, Frac(50, 1))
            /\ d.num = 2 * DistScale => FEq(relevance, Frac(0, 1))
            /\ \A n \in 0..(2 * DistScale) :
                  n > d.num => FLess(Relevance(Dist(n)), relevance)

C5_Witness ==
    /\ pc = "done"
    /\ outcome = "rendered"
    /\ response.objects[1].distance = Dist(DistScale)
    /\ output[1].kind = "result"
    /\ FEq(output[1].relevance, Frac(50, 1))
    /\ output[1].relevance_bar = 50

\* C6: a rendered result shows a reranked relevance exactly when the result
\* has a rerank score and reranking is enabled, and it is then 100 times the
\* score, for every score in [0, 1], 0 included.
C6_RerankedShownWhenScored ==
    \A j \in Positions("result") :
        LET score == response.objects[output[j].i + 1].rerank_score
            shown == output[j].reranked
        IN  /\ (shown # NoneNum) <=> (rerank_choice /\ score # NoneNum)
            /\ shown # NoneNum =>
                  shown[1].num * score[1].den
                     = 100 * score[1].num * shown[1].den

\* C7: results are rendered in the order of the response, with nothing
\* skipped before a rendered one; in Explained mode the generated text of a
\* result directly follows that result and precedes the next one; in Summary
\* mode a non-empty grouped summary is rendered once, before every result,
\* and no summary is rendered otherwise.
C7_RenderingOrder ==
    response.status = "returned" =>
        /\ \A j \in Positions("result") :
              output[j].i = Cardinality({k \in Positions("result") : k < j})
        /\ outcome = "rendered" =>
              Cardinality(Positions("result")) = Len(response.objects)
        /\ search_mode = "Explained Search" =>
              /\ \A j \in Positions("result") :
                    /\ j + 1 \in Positions("generated")
                    /\ output[j + 1].i = output[j].i
                    /\ output[j + 1].text
                          = response.objects[output[j].i + 1].generated
              /\ \A j \in Positions("generated") : j - 1 \in Positions("result")
        /\ search_mode = "Summary Generation Search" =>
              /\ Cardinality(Positions("summary"))
                    = IF TruthyStr(response.generated) THEN 1 ELSE 0
              /\ \A j \in Positions("summary") :
                    /\ output[j].text = response.generated
                    /\ \A k \in Positions("result") : j < k

C7_Witness ==
    /\ pc = "done"
    /\ outcome = "rendered"
    /\ search_mode = "Summary Generation Search"
    /\ response.generated = "X"
    /\ Len(response.objects) = 2
    /\ Cardinality(Positions("summary")) = 1
    /\ Cardinality(Positions("result")) = 2

\* C8: a retrieval call that raises ends the run as a reported retrieval
\* error, with nothing rendered and no second call; a call that returns no
\* objects ends the run without an error and with "No results found.".
C8_FailureIsNotEmptyResult ==
    /\ response.status = "raised" =>
          /\ pc = "done"
          /\ outcome = "retrieval_failed"
          /\ output = <<>>
          /\ Len(calls) = 1
    /\ (response.status = "returned" /\ response.objects = <<>>) =>
          /\ pc = "done"
          /\ outcome = "rendered"
          /\ Cardinality(Positions("no_results")) = 1
          /\ Positions("result") = {}
          /\ Len(calls) = 1

C8_Witness ==
    /\ response.status = "raised"
    /\ outcome = "retrieval_failed"
    /\ output = <<>>
    /\ Len(calls) = 1

\* a result whose page and volume parse
WellFormed(result) ==
    /\ PyInt(Slice1(result.page)).ok
    /\ PyInt(Slice1(result.volume)).ok

\* C9: a result whose page or volume does not parse keeps no other result of
\* the response from being rendered.
C9_MalformedResultAlone ==
    (pc = "done" /\ response.status = "returned") =>
        \A k \in DOMAIN response.objects :
            WellFormed(response.objects[k]) =>
                \E j \in Positions("result") : output[j].i = k - 1

\* C10: when the store returns no collections, no collection is selected and
\* the run never reaches a retrieval call.
C10_NoCollectionNoSearch ==
    classes = <<>> =>
        /\ selected_collection = NoneStr
        /\ calls = <<>>
        /\ ~RanSearch
        /\ pc \in {"list_all", "get", "done"}
        /\ pc = "done" => outcome \in {"list_failed", "get_failed"}

C10_Witness ==
    /\ classes = <<>>
    /\ pc = "done"
    /\ outcome = "get_failed"
    /\ calls = <<>>

====
